---- MODULE Spec2Model ----
(***************************************************************************)
(* od-db: a file-per-document store (class ODModel) and its query filter.  *)
(*                                                                         *)
(* The repository carries two revisions of ODModel in one source file:     *)
(*   "v1"  part_000 lines   1-290 (has dropCollection, findByIdAndDelete   *)
(*         returns a boolean, findByIdAndUpdate rebuilds the document      *)
(*         from the update)                                                *)
(*   "v2"  part_000 lines 292-617 (documented revision, findByIdAndUpdate  *)
(*         spreads the existing document under the update)                 *)
(* The variable `variant` fixes which revision a behaviour runs.           *)
(* A third, older ODModel (src/src/model.ts, variant "legacy") is modelled *)
(* for its two reads, and the backup utility ODDb of part_001 for backup(). *)
(*                                                                         *)
(* Values are tagged pairs <<kind, payload>>.  Strings are numbered: the   *)
(* string with number 0 is ".DS_Store", the strings 1..MaxId are ordinary  *)
(* names in ascending lexicographic order.  ISO-8601 timestamps are the    *)
(* kind "time"; they are JavaScript strings too.                           *)
(***************************************************************************)
EXTENDS Integers, Sequences, FiniteSets, TLC

\* ------------------------------------------------------------------ bounds
MaxId == 2
MaxVal == 1
MaxTime == 1
MaxCalls == 3
MaxBatch == 2

\* ------------------------------------------------------------------ values
Num(n) == <<"number", n>>
Str(i) == <<"string", i>>
Time(t) == <<"time", t>>
Null == <<"null", 0>>
Undefined == <<"undefined", 0>>
EmptyStr == <<"string", -1>>
None == <<"none", 0>>

Kind(v) == v[1]

DSStore == 0
Names == 0..MaxId
UserKeys == {"age", "name"}
UserVals == {Num(n) : n \in 0..MaxVal} \cup {Null}

\* JavaScript truthiness of a value (ToBoolean)
Truthy(v) == Kind(v) \notin {"undefined", "null", "none"} /\ v # Num(0) /\ v # EmptyStr

\* file.includes('.DS_Store') for the file `<name>.json`
includesDSStore(name) == name = DSStore

\* a lookup that takes a present null for a missing member
getNullAsMissing(document, key) ==
    IF key \in DOMAIN document /\ document[key] # Null THEN document[key] ELSE Undefined

\* lodash get(document, key) for a top-level key
get(document, key) == IF key \in DOMAIN document THEN document[key] ELSE Undefined

\* { ...a, ...b }
Spread(a, b) == [k \in DOMAIN a \cup DOMAIN b |-> IF k \in DOMAIN b THEN b[k] ELSE a[k]]

\* JSON.stringify(document, null, 2): the members of the object as
\* key/value pairs; a member whose value is undefined is not written
JSONstringify(document) == {<<k, document[k]>> : k \in {j \in DOMAIN document : document[j] # Undefined}}

\* JSON.parse(data)
JSONparse(data) == [k \in {p[1] : p \in data} |-> (CHOOSE p \in data : p[1] = k)[2]]

\* ------------------------------------------------------------------ filter
\* JavaScript relational comparison.  Two strings compare by code units:
\* "" < ".DS_Store" < every timestamp < every name.  Otherwise both sides are
\* converted with ToNumber: null is 0, undefined and a non-numeric string
\* are NaN, and every comparison with NaN is false.
IsString(v) == Kind(v) \in {"string", "time"}
StrOrd(v) == IF Kind(v) = "time" THEN 1 + v[2] ELSE IF v[2] <= DSStore THEN v[2] ELSE MaxTime + 1 + v[2]
IsNaN(v) == Kind(v) \notin {"number", "null"}
ToNumber(v) == IF Kind(v) = "number" THEN v[2] ELSE 0
JsLt(a, b) ==
    IF IsString(a) /\ IsString(b) THEN StrOrd(a) < StrOrd(b)
    ELSE IF IsNaN(a) \/ IsNaN(b) THEN FALSE
    ELSE ToNumber(a) < ToNumber(b)
JsLe(a, b) ==
    IF IsString(a) /\ IsString(b) THEN StrOrd(a) <= StrOrd(b)
    ELSE IF IsNaN(a) \/ IsNaN(b) THEN FALSE
    ELSE ToNumber(a) <= ToNumber(b)

\* A filter maps keys to filter values.  A filter value is a literal value,
\* <<"array", set of values>> or <<"object", function from operator names
\* to operands>>.
\* lodash isObject: true of objects and of arrays, false of null and scalars
isObject(filterValue) == Kind(filterValue) \in {"object", "array"}
isArray(filterValue) == Kind(filterValue) = "array"
\* '$op' in filterValue: an array has no member named like an operator
HasOp(filterValue, op) == Kind(filterValue) = "object" /\ op \in DOMAIN filterValue[2]

matchesField(filterValue, documentValue) ==
    IF isObject(filterValue) THEN
        /\ ~(HasOp(filterValue, "$eq") /\ documentValue # filterValue[2]["$eq"])
        /\ ~(HasOp(filterValue, "$ne") /\ documentValue = filterValue[2]["$ne"])
        /\ ~(HasOp(filterValue, "$gt") /\ JsLe(documentValue, filterValue[2]["$gt"]))
        /\ ~(HasOp(filterValue, "$gte") /\ JsLt(documentValue, filterValue[2]["$gte"]))
        /\ ~(HasOp(filterValue, "$lt") /\ JsLe(filterValue[2]["$lt"], documentValue))
        /\ ~(HasOp(filterValue, "$lte") /\ JsLt(filterValue[2]["$lte"], documentValue))
        /\ ~(HasOp(filterValue, "$in") /\ documentValue \notin filterValue[2]["$in"])
        /\ ~(HasOp(filterValue, "$nin") /\ documentValue \in filterValue[2]["$nin"])
        /\ ~(/\ HasOp(filterValue, "$exists")
             /\ \/ (filterValue[2]["$exists"] /\ documentValue = Undefined)
                \/ (~filterValue[2]["$exists"] /\ documentValue # Undefined))
    ELSE IF isArray(filterValue) THEN documentValue \in filterValue[2]
    ELSE filterValue = documentValue

matchesFilter(document, filter) ==
    \A key \in DOMAIN filter : matchesField(filter[key], get(document, key))

\* ------------------------------------------------------------------ state
VARIABLES variant, production, files, now, calls, ret, deleted,
          tasks, today, backupDir, streams

vars == <<variant, production, files, now, calls, ret, deleted, tasks, today, backupDir, streams>>
\* what the calls in flight hold (tasks) and what the backup utility of
\* part_001 works on: the calendar day (today), the backup root
\* (backupDir) and the stream copies still to run (streams)
otherVars == <<tasks, today, backupDir, streams>>

Variants == {"v1", "v2"}

\* the result of the last call: what it was called with (args), how it
\* ended (kind: "value", "null" or "error"), what it returned (value) and
\* which files it wrote at which time (writes) and removed (unlinks), and
\* whether it listed the collection directory (listed).
\* deleted is a history variable: the names `<id>.json` that a successful
\* findByIdAndDelete removed and no insert has written since.
Ret(op, args, kind, value, writes, unlinks, listed) ==
    [op |-> op, args |-> args, kind |-> kind, value |-> value, writes |-> writes,
     unlinks |-> unlinks, listed |-> listed]

NoCall == Ret("none", <<>>, "none", None, {}, {}, FALSE)

Init ==
    /\ variant \in Variants
    /\ production \in BOOLEAN
    /\ files = <<>>
    /\ now = 0
    /\ calls = 0
    /\ ret = NoCall
    /\ deleted = {}
    /\ tasks = <<>>
    /\ today = 0
    /\ backupDir = <<>>
    /\ streams = {}

\* ------------------------------------------------------------------ inputs
IdVals == {Str(i) : i \in Names}
IdArgs == {Str(i) : i \in 1..MaxId}

\* what a caller puts into a document, and the ids a caller chooses
Contents == {<<>>, ("age" :> Num(0)), ("age" :> Num(MaxVal) @@ "name" :> Str(1))}
InsertDocs ==
    Contents \cup {Spread(c, [id |-> i]) : c \in Contents, i \in {Str(DSStore), Str(1)}}
    \cup {("id" :> EmptyStr @@ "age" :> Num(0))}

FileNameArgs == {Undefined, Str(MaxId)}

BatchDocs == {("id" :> Str(1) @@ "age" :> Num(0)), ("age" :> Num(MaxVal))}
Batches == UNION {[1..n -> BatchDocs] : n \in 0..MaxBatch}

Updates ==
    {<<>>, ("age" :> Num(MaxVal)), ("name" :> Null), ("id" :> Str(MaxId) @@ "age" :> Num(0)),
     ("createdAt" :> Time(0) @@ "age" :> Num(MaxVal))}
ManyUpdates == {("age" :> Num(MaxVal)), ("createdAt" :> Time(0))}

Operands == {Num(n) : n \in 0..MaxVal}

\* the filters of the calls: the empty filter, a literal, an array, an
\* operator object
Filters ==
    {<<>>, ("age" :> Num(0)), ("age" :> <<"array", {Num(MaxVal)}>>),
     ("age" :> <<"object", ("$gt" :> Num(0))>>)}

\* ------------------------------------------------------------------ file system
\* mutant of writeFile: a file that exists is not written again
writeFileOnce(fs, name, data) ==
    [n \in DOMAIN fs \cup {name} |-> IF n \in DOMAIN fs THEN fs[n] ELSE data]
\* fs.promises.writeFile(filePath, data)
writeFile(fs, name, data) == [n \in DOMAIN fs \cup {name} |-> IF n = name THEN data ELSE fs[n]]
\* mutant of unlink: the file stays
unlinkKeepsFile(fs, name) == fs
\* fs.promises.unlink(filePath)
unlink(fs, name) == [n \in DOMAIN fs \ {name} |-> fs[n]]
\* fs.promises.readdir(collectionPath): the names in an order the file
\* system chooses
readdir(fs) ==
    {l \in [1..Cardinality(DOMAIN fs) -> DOMAIN fs] : \A i, j \in DOMAIN l : i # j => l[i] # l[j]}

\* What a collection directory can hold besides documents the store wrote:
\* NotJSON is the content of a regular file that JSON.parse rejects,
\* IsDirectory stands for an entry that is not a regular file, on which
\* readFile, writeFile and unlink all fail.
NotJSON == {<<"", Undefined>>}
IsDirectory == {<<"", Null>>}
\* mutant of readable: a failure to read or parse is not noticed
readableAlways(fs, name) == TRUE
\* readFile(filePath) and JSON.parse(data) both succeed
readable(fs, name) == fs[name] \notin {NotJSON, IsDirectory}
\* mutant of writable: a file that exists is not written (duplicate check)
writableIfAbsent(fs, name) == name \notin DOMAIN fs
\* mutant of writable: a failure to write is not noticed
writableAlways(fs, name) == TRUE
\* writeFile(filePath) and unlink(filePath) succeed
writable(fs, name) == name \notin DOMAIN fs \/ fs[name] # IsDirectory

\* nanoid(): an identifier no file and no stored document carries
FreshIds(fs) ==
    {g \in 1..MaxId : g \notin DOMAIN fs /\ \A n \in DOMAIN fs : <<"id", Str(g)>> \notin fs[n]}

\* the file named `<id>.json` can be read (findOne does not return null)
found(fs, id) == Truthy(id) /\ id[2] \in DOMAIN fs /\ readable(fs, id[2])
existingData(fs, id) == JSONparse(fs[id[2]])

\* ------------------------------------------------------------------ operations
\* part_000:21 / :328
\* what findOne(id) returns when the files are fs
findOneResult(fs, id) ==
    IF found(fs, id) THEN [kind |-> "value", value |-> existingData(fs, id)]
    ELSE [kind |-> "null", value |-> Null]

\* the findOne of src/src/model.ts:30 has no catch that returns null: it
\* throws where the findOne of part_000 returns null
findOne(id) ==
    /\ calls < MaxCalls
    /\ LET r == findOneResult(files, id)
       IN ret' = IF variant = "legacy" /\ r.kind = "null"
                 THEN Ret("findOne", [id |-> id], "error", None, {}, {}, FALSE)
                 ELSE Ret("findOne", [id |-> id], r.kind, r.value, {}, {}, FALSE)
    /\ calls' = calls + 1
    /\ UNCHANGED <<variant, production, files, now, deleted>>

\* the for loop of findMany over the listing
\* (given is FALSE when findMany is called without a query)
RECURSIVE findManyLoop(_, _, _, _, _)
findManyLoop(list, fs, given, query, results) ==
    IF list = <<>> THEN [kind |-> "value", value |-> results]
    ELSE LET file == Head(list)
             document == JSONparse(fs[file])
         IN IF includesDSStore(file) THEN findManyLoop(Tail(list), fs, given, query, results)
            ELSE IF ~readable(fs, file) THEN [kind |-> "error", value |-> None]
            ELSE IF ~given \/ matchesFilter(document, query)
                 THEN findManyLoop(Tail(list), fs, given, query, Append(results, document))
                 ELSE findManyLoop(Tail(list), fs, given, query, results)

findMany(given, query) ==
    /\ calls < MaxCalls
    /\ calls' = calls + 1
    /\ \E list \in readdir(files) :
         LET r == findManyLoop(list, files, given, query, <<>>)
         IN ret' = Ret("findMany", [given |-> given, query |-> query], r.kind, r.value,
                       {}, {}, TRUE)
    /\ UNCHANGED <<variant, production, files, now, deleted>>

\* mutant of insertedDocument: the caller's fields are not spread in
insertedDocumentBare(document, id, t) ==
    [id |-> id, createdAt |-> Time(t), updatedAt |-> Time(t)]
\* the document insertOne and insertMany write and return
insertedDocument(document, id, t) ==
    Spread(document, [id |-> id, createdAt |-> Time(t), updatedAt |-> Time(t)])

\* mutant of idChoices: an identifier is generated for every document
idChoicesAlwaysNew(document, fs) == {Str(g) : g \in FreshIds(fs)}
\* document.id || this.generateId()
idChoices(document, fs) ==
    IF Truthy(get(document, "id")) THEN {get(document, "id")}
    ELSE {Str(g) : g \in FreshIds(fs)}

insertOne(document, fileName) ==
    /\ calls < MaxCalls
    /\ \E id \in idChoices(document, files) :
         LET finalFileName == IF Truthy(fileName) THEN fileName ELSE id
             doc == insertedDocument(document, id, now)
         IN IF writable(files, finalFileName[2])
            THEN /\ files' = writeFile(files, finalFileName[2], JSONstringify(doc))
                 /\ ret' = Ret("insertOne", [document |-> document, fileName |-> fileName],
                               "value", doc, {<<finalFileName[2], now>>}, {}, FALSE)
                 /\ deleted' = deleted \ {finalFileName[2]}
            ELSE /\ files' = files
                 /\ ret' = Ret("insertOne", [document |-> document, fileName |-> fileName],
                               "error", None, {}, {}, FALSE)
                 /\ deleted' = deleted
    /\ calls' = calls + 1
    /\ UNCHANGED <<variant, production, now>>

\* the for loop of insertMany from the i-th document on: every outcome it
\* can have, for the identifiers generateId() can return and the times the
\* clock can show when a document is stamped; a write that fails ends it
RECURSIVE insertManyLoop(_, _, _)
insertManyLoop(documents, i, acc) ==
    IF i > Len(documents) THEN {acc}
    ELSE UNION {LET doc == insertedDocument(documents[i], id, t)
                IN IF ~writable(acc.fs, id[2]) THEN {[acc EXCEPT !.kind = "error", !.now = t]}
                   ELSE insertManyLoop(documents, i + 1,
                            [kind |-> acc.kind,
                             fs |-> writeFile(acc.fs, id[2], JSONstringify(doc)),
                             docs |-> Append(acc.docs, doc),
                             writes |-> acc.writes \cup {<<id[2], t>>},
                             now |-> t]) :
                  id \in idChoices(documents[i], acc.fs),
                  t \in (IF i = 1 THEN {acc.now} ELSE acc.now..MaxTime)}

insertMany(documents) ==
    /\ calls < MaxCalls
    /\ \E r \in insertManyLoop(documents, 1, [kind |-> "value", fs |-> files, docs |-> <<>>,
                                              writes |-> {}, now |-> now]) :
         /\ files' = r.fs
         /\ now' = r.now
         /\ ret' = Ret("insertMany", [documents |-> documents], r.kind,
                       IF r.kind = "value" THEN r.docs ELSE None, r.writes, {}, FALSE)
         /\ deleted' = deleted \ {w[1] : w \in r.writes}
    /\ calls' = calls + 1
    /\ UNCHANGED <<variant, production>>

\* the object findByIdAndUpdate writes and returns (part_000:117 / :446)
updatedData(v, existing, update, t) ==
    IF v = "v1"
    THEN Spread(update, [id |-> get(existing, "id"), updatedAt |-> Time(t)])
    ELSE Spread(Spread(existing, update), [updatedAt |-> Time(t)])

\* mutant of notFound: a missing document is raised as an error
notFoundThrows(op, args, v) == Ret(op, args, "error", None, {}, {}, FALSE)
\* `return null; // Document not found` (part_000:125, :454, :510) and
\* `return false; // Document not found` (part_000:170)
notFound(op, args, v) ==
    IF op = "findByIdAndDelete" /\ v = "v1"
    THEN Ret(op, args, "value", FALSE, {}, {}, FALSE)
    ELSE Ret(op, args, "null", Null, {}, {}, FALSE)

findByIdAndUpdate(id, update) ==
    /\ calls < MaxCalls
    /\ IF found(files, id)
       THEN LET data == updatedData(variant, existingData(files, id), update, now)
            IN /\ files' = writeFile(files, id[2], JSONstringify(data))
               /\ ret' = Ret("findByIdAndUpdate", [id |-> id, update |-> update],
                             "value", data, {<<id[2], now>>}, {}, FALSE)
       ELSE /\ files' = files
            /\ ret' = notFound("findByIdAndUpdate", [id |-> id, update |-> update], variant)
    /\ calls' = calls + 1
    /\ UNCHANGED <<variant, production, now, deleted>>

\* what findManyAndUpdate writes for a matching document (part_000:148)
updatedDocument(document, update) == Spread(document, update)
\* mutant of pushedDocument: the updated document is pushed
pushedUpdatedDocument(document, update) == Spread(document, update)
\* what findManyAndUpdate pushes onto its result (part_000:151)
pushedDocument(document, update) == document

\* the for loop of findManyAndUpdate
RECURSIVE findManyAndUpdateLoop(_, _, _, _, _)
findManyAndUpdateLoop(list, query, update, t, acc) ==
    IF list = <<>> THEN acc
    ELSE LET file == Head(list)
             document == JSONparse(acc.fs[file])
             match == matchesFilter(document, query)
         IN IF includesDSStore(file) THEN findManyAndUpdateLoop(Tail(list), query, update, t, acc)
            ELSE IF ~readable(acc.fs, file) THEN [acc EXCEPT !.kind = "error"]
            ELSE findManyAndUpdateLoop(Tail(list), query, update, t,
                    [kind |-> acc.kind,
                     fs |-> IF match
                            THEN writeFile(acc.fs, file, JSONstringify(updatedDocument(document, update)))
                            ELSE acc.fs,
                     docs |-> Append(acc.docs, pushedDocument(document, update)),
                     writes |-> IF match THEN acc.writes \cup {<<file, t>>} ELSE acc.writes])

findManyAndUpdate(query, update) ==
    /\ calls < MaxCalls
    /\ \E list \in readdir(files) :
         LET r == findManyAndUpdateLoop(list, query, update, now,
                      [kind |-> "value", fs |-> files, docs |-> <<>>, writes |-> {}])
         IN /\ files' = r.fs
            /\ ret' = Ret("findManyAndUpdate", [query |-> query, update |-> update],
                          r.kind, IF r.kind = "value" THEN r.docs ELSE None, r.writes, {}, TRUE)
    /\ calls' = calls + 1
    /\ UNCHANGED <<variant, production, now, deleted>>

\* part_000:161 returns a boolean, part_000:501 the deleted document or null
findByIdAndDelete(id) ==
    /\ calls < MaxCalls
    /\ IF found(files, id)
       THEN /\ files' = unlink(files, id[2])
            /\ ret' = Ret("findByIdAndDelete", [id |-> id], "value",
                          IF variant = "v1" THEN TRUE ELSE existingData(files, id),
                          {}, {id[2]}, FALSE)
            /\ deleted' = deleted \cup {id[2]}
       ELSE /\ files' = files
            /\ ret' = notFound("findByIdAndDelete", [id |-> id], variant)
            /\ deleted' = deleted
    /\ calls' = calls + 1
    /\ UNCHANGED <<variant, production, now>>

\* the for loop of findManyAndDelete
RECURSIVE findManyAndDeleteLoop(_, _, _)
findManyAndDeleteLoop(list, query, fs) ==
    IF list = <<>> THEN [kind |-> "value", fs |-> fs]
    ELSE LET file == Head(list)
             document == JSONparse(fs[file])
         IN IF includesDSStore(file) THEN findManyAndDeleteLoop(Tail(list), query, fs)
            ELSE IF ~readable(fs, file) THEN [kind |-> "error", fs |-> fs]
            ELSE IF matchesFilter(document, query)
                 THEN findManyAndDeleteLoop(Tail(list), query, unlink(fs, file))
                 ELSE findManyAndDeleteLoop(Tail(list), query, fs)

findManyAndDelete(query) ==
    /\ calls < MaxCalls
    /\ \E list \in readdir(files) :
         LET r == findManyAndDeleteLoop(list, query, files)
         IN /\ files' = r.fs
            /\ ret' = Ret("findManyAndDelete", [query |-> query], r.kind,
                          IF r.kind = "error" THEN None
                          ELSE IF variant = "v1" THEN TRUE ELSE Undefined,
                          {}, DOMAIN files \ DOMAIN r.fs, TRUE)
    /\ calls' = calls + 1
    /\ UNCHANGED <<variant, production, now, deleted>>

\* part_000:203 / :551
countDocuments ==
    /\ calls < MaxCalls
    /\ ret' = Ret("countDocuments", <<>>, "value", Cardinality(DOMAIN files), {}, {}, TRUE)
    /\ calls' = calls + 1
    /\ UNCHANGED <<variant, production, files, now, deleted>>

\* mutant of dropGuard: the environment is not looked at
dropGuardOff(prod) == FALSE
\* process.env.NODE_ENV === 'production' (part_000:210)
dropGuard(prod) == prod

\* the for loop of dropCollection
RECURSIVE dropCollectionLoop(_, _)
dropCollectionLoop(list, fs) ==
    IF list = <<>> THEN [kind |-> "value", fs |-> fs]
    ELSE IF includesDSStore(Head(list)) THEN dropCollectionLoop(Tail(list), fs)
    ELSE IF ~writable(fs, Head(list)) THEN [kind |-> "error", fs |-> fs]
    ELSE dropCollectionLoop(Tail(list), unlink(fs, Head(list)))

\* only the revision of part_000:1-290 has dropCollection
dropCollection ==
    /\ variant = "v1"
    /\ calls < MaxCalls
    /\ IF dropGuard(production)
       THEN /\ files' = files
            /\ ret' = Ret("dropCollection", <<>>, "error", None, {}, {}, FALSE)
       ELSE \E list \in readdir(files) :
              LET r == dropCollectionLoop(list, files)
              IN /\ files' = r.fs
                 /\ ret' = Ret("dropCollection", <<>>, r.kind,
                               IF r.kind = "value" THEN TRUE ELSE None, {},
                               DOMAIN files \ DOMAIN r.fs, TRUE)
    /\ calls' = calls + 1
    /\ UNCHANGED <<variant, production, now, deleted>>

\* time passes between two calls
Tick ==
    /\ now < MaxTime
    /\ now' = now + 1
    /\ UNCHANGED <<variant, production, files, calls, ret, deleted>>

\* one collection used by one caller that awaits every call before the
\* next, on a file system that does not fail
Next ==
    /\ UNCHANGED otherVars
    /\ \/ \E id \in IdArgs : findOne(id)
       \/ \E query \in Filters : findMany(TRUE, query)
       \/ findMany(FALSE, <<>>)
       \/ \E document \in InsertDocs, fileName \in FileNameArgs : insertOne(document, fileName)
       \/ \E documents \in Batches : insertMany(documents)
       \/ \E id \in IdArgs, update \in Updates : findByIdAndUpdate(id, update)
       \/ \E query \in Filters, update \in ManyUpdates : findManyAndUpdate(query, update)
       \/ \E id \in IdArgs : findByIdAndDelete(id)
       \/ \E query \in Filters : findManyAndDelete(query)
       \/ countDocuments
       \/ dropCollection
       \/ Tick

Spec == Init /\ [][Next]_vars

\* ------------------------------------------------------------------ overlapping calls
\* insertOne and findByIdAndUpdate are async functions: a call runs up to
\* its next await, and the file operation it awaits settles later, after
\* any step of another call in flight.  tasks holds the calls in order of
\* calling.  A task is at "reading" (findByIdAndUpdate and findByIdAndDelete
\* await findOne), at "writing" (it awaits writeFile), at "unlinking" (it
\* awaits unlink) or "done".
\*   pending  the earlier tasks in flight when it was called
\*   base     the files when it was called
\*   seen     the tasks whose write had settled when its read settled
\*   wrote    the position of its write among the settled writes (0: none)
MaxTasks == 2

RaceDocs == {("id" :> Str(1) @@ "age" :> Num(0)), ("id" :> Str(1) @@ "name" :> Str(1))}
RaceUpdates == {("age" :> Num(MaxVal)), ("name" :> Null)}

Task(op, id, arg, pc, kind, data, t, pending, base, seen, wrote) ==
    [op |-> op, id |-> id, arg |-> arg, pc |-> pc, kind |-> kind, data |-> data, t |-> t,
     pending |-> pending, base |-> base, seen |-> seen, wrote |-> wrote]

InFlight == {i \in DOMAIN tasks : tasks[i].pc # "done"}
Settled == {i \in DOMAIN tasks : tasks[i].wrote > 0}

\* part_000:70-82: insertOne up to its await of writeFile
insertOneCall(document, fileName) ==
    /\ Len(tasks) < MaxTasks
    /\ \E id \in idChoices(document, files) :
         LET finalFileName == IF Truthy(fileName) THEN fileName ELSE id
         IN tasks' = Append(tasks, Task("insertOne", finalFileName, document, "writing", "pending",
                                        insertedDocument(document, id, now), now,
                                        InFlight, files, {}, 0))
    /\ UNCHANGED <<variant, production, files, now, calls, ret, deleted, today, backupDir, streams>>

\* part_000:111-115 / :440-444: findByIdAndUpdate up to its await of findOne
findByIdAndUpdateCall(id, update) ==
    /\ Len(tasks) < MaxTasks
    /\ tasks' = Append(tasks, Task("findByIdAndUpdate", id, update, "reading", "pending",
                                   <<>>, now, InFlight, files, {}, 0))
    /\ UNCHANGED <<variant, production, files, now, calls, ret, deleted, today, backupDir, streams>>

\* part_000:161-165 / :501-505: findByIdAndDelete up to its await of findOne
findByIdAndDeleteCall(id) ==
    /\ Len(tasks) < MaxTasks
    /\ tasks' = Append(tasks, Task("findByIdAndDelete", id, <<>>, "reading", "pending",
                                   <<>>, now, InFlight, files, {}, 0))
    /\ UNCHANGED <<variant, production, files, now, calls, ret, deleted, today, backupDir, streams>>

\* part_000:115-122 / :444-451, :165-167 / :505-507: findOne settles; the
\* task returns null (false) or goes on: findByIdAndUpdate builds
\* updatedData and awaits writeFile, findByIdAndDelete awaits unlink
findOneSettles(i) ==
    /\ i \in DOMAIN tasks
    /\ tasks[i].pc = "reading"
    /\ tasks' = [tasks EXCEPT ![i] =
                   IF ~found(files, tasks[i].id)
                   THEN [@ EXCEPT !.pc = "done", !.kind = "null", !.seen = Settled]
                   ELSE IF tasks[i].op = "findByIdAndDelete"
                   THEN [@ EXCEPT !.pc = "unlinking", !.data = existingData(files, tasks[i].id),
                                  !.t = now, !.seen = Settled]
                   ELSE [@ EXCEPT !.pc = "writing",
                                  !.data = updatedData(variant, existingData(files, tasks[i].id),
                                                       tasks[i].arg, now),
                                  !.t = now, !.seen = Settled]]
    /\ UNCHANGED <<variant, production, files, now, calls, ret, deleted, today, backupDir, streams>>

\* part_000:82-83, :122-123 / :451-452: writeFile settles and the task
\* returns what it wrote
writeFileSettles(i) ==
    /\ i \in DOMAIN tasks
    /\ tasks[i].pc = "writing"
    /\ files' = writeFile(files, tasks[i].id[2], JSONstringify(tasks[i].data))
    /\ tasks' = [tasks EXCEPT ![i] = [@ EXCEPT !.pc = "done", !.kind = "value",
                                               !.wrote = Cardinality(Settled) + 1]]
    /\ UNCHANGED <<variant, production, now, calls, ret, deleted, today, backupDir, streams>>

\* part_000:167-168 / :507-508: unlink settles and the task returns true
\* (the document it read); unlink of a file that is gone fails (ENOENT) and
\* the task throws
unlinkSettles(i) ==
    /\ i \in DOMAIN tasks
    /\ tasks[i].pc = "unlinking"
    /\ IF tasks[i].id[2] \in DOMAIN files
       THEN /\ files' = unlink(files, tasks[i].id[2])
            /\ tasks' = [tasks EXCEPT ![i] = [@ EXCEPT !.pc = "done", !.kind = "value"]]
       ELSE /\ files' = files
            /\ tasks' = [tasks EXCEPT ![i] = [@ EXCEPT !.pc = "done", !.kind = "error"]]
    /\ UNCHANGED <<variant, production, now, calls, ret, deleted, today, backupDir, streams>>

RaceTick ==
    /\ Tick
    /\ UNCHANGED otherVars

RaceStores == {<<>>, (1 :> JSONstringify(insertedDocument(("age" :> Num(MaxVal)), Str(1), 0)))}

RaceInit ==
    /\ variant \in Variants
    /\ production = FALSE
    /\ files \in RaceStores
    /\ now = 0
    /\ calls = 0
    /\ ret = NoCall
    /\ deleted = {}
    /\ tasks = <<>>
    /\ today = 0
    /\ backupDir = <<>>
    /\ streams = {}

RaceNext ==
    \/ \E document \in RaceDocs : insertOneCall(document, Undefined)
    \/ \E update \in RaceUpdates : findByIdAndUpdateCall(Str(1), update)
    \/ \E i \in 1..MaxTasks : findOneSettles(i)
    \/ \E i \in 1..MaxTasks : writeFileSettles(i)
    \/ RaceTick

RaceSpec == RaceInit /\ [][RaceNext]_vars

\* updates and deletes of one id in flight together, no insert being issued
DeleteRaceNext ==
    \/ \E update \in RaceUpdates : findByIdAndUpdateCall(Str(1), update)
    \/ findByIdAndDeleteCall(Str(1))
    \/ \E i \in 1..MaxTasks : findOneSettles(i)
    \/ \E i \in 1..MaxTasks : writeFileSettles(i)
    \/ \E i \in 1..MaxTasks : unlinkSettles(i)
    \/ RaceTick

DeleteRaceSpec == RaceInit /\ [][DeleteRaceNext]_vars

\* ------------------------------------------------------------------ backup
\* ODDb.backup of part_001.  A Date is [day, ms]: the days since 1 January
\* 2023 and the time of day (0 is midnight).  A snapshot directory name
\* `${year}-${month}-${day}-${n}` is the tuple of its four numbers, which is
\* what dir.split('-') and Number() make of it.  A tree node is
\* <<"dir", entries>>, <<"link", target>> or <<"file", data>>; a snapshot is
\* kept flat, as a function from paths to nodes (a directory as <<"dir", {}>>).
MaxDay == 31
MaxBackupCalls == 2
backupDaysLimit == 30

DaysIn == <<31, 28, 31, 30, 31, 30, 31, 31, 30, 31, 30, 31>>
RECURSIVE SumDays(_)
SumDays(monthIndex) == IF monthIndex = 0 THEN 0 ELSE DaysIn[monthIndex] + SumDays(monthIndex - 1)
RECURSIVE ToDate(_, _)
ToDate(n, monthIndex) ==
    IF n < DaysIn[monthIndex + 1] THEN [year |-> 2023, month |-> monthIndex, date |-> n + 1]
    ELSE ToDate(n - DaysIn[monthIndex + 1], monthIndex + 1)
getFullYear(d) == ToDate(d.day, 0).year
getMonth(d) == ToDate(d.day, 0).month
getDate(d) == ToDate(d.day, 0).date
\* new Date(year, monthIndex, day)
NewDate(year, monthIndex, day) == [day |-> (year - 2023) * 365 + SumDays(monthIndex) + day - 1, ms |-> 0]
\* date-fns
subDays(d, amount) == [day |-> d.day - amount, ms |-> d.ms]
isAfter(d, dateToCompare) == d.day > dateToCompare.day \/ (d.day = dateToCompare.day /\ d.ms > dateToCompare.ms)

\* The symbolic links a store root can hold when backup() runs, each with
\* the target readlinkSync returns: `current` -> `users` is relative to the
\* directory that holds the link, `live` -> <dbPath>/users is absolute
\* (written <<"/", "users">>).
StoreLinks == {<<>>, ("current" :> <<"users">> @@ "live" :> <<"/", "users">>)}

\* the store root: one collection directory, config.json and the links
dbPath(fs, links) ==
    ("users" :> <<"dir", [n \in DOMAIN fs |-> <<"file", fs[n]>>]>>
     @@ "config.json" :> <<"file", JSONstringify(<<>>)>>
     @@ [n \in DOMAIN links |-> <<"link", links[n]>>])

\* part_001:122: what copyDir makes before it returns (made) and the files
\* it hands to copyFile (piped)
RECURSIVE copyDir(_, _)
copyDir(source, destination) ==
    LET entry(name) ==
            LET current == source[name]
                path == Append(destination, name)
            IN IF current[1] = "dir" THEN copyDir(current[2], path)
               ELSE IF current[1] = "link" THEN [made |-> {<<path, current>>}, piped |-> {}]
               ELSE [made |-> {}, piped |-> {path}]
    IN [made |-> {<<destination, <<"dir", {}>>>>} \cup UNION {entry(name).made : name \in DOMAIN source},
        piped |-> UNION {entry(name).piped : name \in DOMAIN source}]

\* part_001:48
oldBackups(list, d) ==
    {dir \in list : isAfter(subDays(d, backupDaysLimit), NewDate(dir[1], dir[2] - 1, dir[3]))}
\* part_001:68
todayBackups(list, d) ==
    {dir \in list : dir[1] = getFullYear(d) /\ dir[2] = getMonth(d) + 1 /\ dir[3] = getDate(d)}
\* part_001:76
newDirName(list, d) ==
    <<getFullYear(d), getMonth(d) + 1, getDate(d), Cardinality(todayBackups(list, d)) + 1>>

\* the orders in which readdirSync can list the names S
Listings(S) ==
    {l \in [1..Cardinality(S) -> S] : \A i, j \in DOMAIN l : i # j => l[i] # l[j]}
\* the entries of the directory dir of a snapshot
entries(tree, dir) ==
    {path \in DOMAIN tree : Len(path) = Len(dir) + 1 /\ SubSeq(path, 1, Len(dir)) = dir}
\* where a link at the path filename leads: a relative target is resolved
\* in the directory that holds the link
resolved(filename, target) == SubSeq(filename, 1, Len(filename) - 1) \o target
isAbsolute(target) == target # <<>> /\ target[1] = "/"

\* fs.statSync(filename) (part_001:98) follows a symbolic link: "dir" when
\* stat.isDirectory(), "file" when not, "ENOENT" when the link leads nowhere.
\* An absolute target leads to the collection directory of the store.
statSync(tree, filename) ==
    LET node == tree[filename]
    IN IF node[1] # "link" THEN node[1]
       ELSE IF isAbsolute(node[2]) THEN "dir"
       ELSE IF resolved(filename, node[2]) \in DOMAIN tree
            THEN tree[resolved(filename, node[2])][1]
            ELSE "ENOENT"

\* fs.unlinkSync(filename) / fs.rmdirSync(dir) of an entry of the snapshot
removed(tree, path) == [q \in DOMAIN tree \ {path} |-> tree[q]]

\* part_001:93-114 on the directory dir of a snapshot, list being what
\* readdirSync(dir) returned; acc is [kind, tree, fs]: how the sweep went so
\* far, what is left of the snapshot and the files of the store's
\* collection.  When dir is a link that statSync took for a directory,
\* readdirSync(dir) lists the directory the link leads to, unlinkSync of
\* `dir/<name>` removes the entry of that directory, and rmdirSync(dir)
\* throws ENOTDIR.  A directory below the root holds regular files only, so
\* the order of its listing makes no difference.
RECURSIVE rmdir(_, _, _)
rmdir(dir, list, acc) ==
    IF acc.tree[dir][1] = "link" THEN
        LET target == acc.tree[dir][2]
        IN IF isAbsolute(target)
           THEN [kind |-> "error", tree |-> acc.tree, fs |-> <<>>]
           ELSE [kind |-> "error",
                 tree |-> [q \in DOMAIN acc.tree \ entries(acc.tree, resolved(dir, target)) |->
                             acc.tree[q]],
                 fs |-> acc.fs]
    ELSE IF list = <<>> THEN [acc EXCEPT !.tree = removed(acc.tree, dir)]
    ELSE LET filename == Head(list)
             stat == statSync(acc.tree, filename)
             below == entries(acc.tree, filename)
             r == IF stat = "ENOENT" THEN [acc EXCEPT !.kind = "error"]
                  ELSE IF stat = "dir"
                  THEN rmdir(filename, CHOOSE l \in Listings(below) : TRUE, acc)
                  ELSE [acc EXCEPT !.tree = removed(acc.tree, filename)]
         IN IF r.kind = "error" THEN r ELSE rmdir(dir, Tail(list), r)

\* part_001:58-61: oldBackups.forEach over the old snapshots in the order
\* of the listing, every outcome for the orders in which readdirSync lists
\* the root of each; acc is [kind, dirs, fs].  The first rmdir that throws
\* ends backup().
RECURSIVE sweep(_, _)
sweep(old, acc) ==
    IF old = <<>> THEN {acc}
    ELSE LET dir == Head(old)
         IN UNION {LET r == rmdir(<<>>, list, [kind |-> "value", tree |-> acc.dirs[dir], fs |-> acc.fs])
                   IN IF r.kind = "error"
                      THEN {[kind |-> "error", dirs |-> [acc.dirs EXCEPT ![dir] = r.tree], fs |-> r.fs]}
                      ELSE sweep(Tail(old), [kind |-> "value",
                                             dirs |-> [x \in DOMAIN acc.dirs \ {dir} |-> acc.dirs[x]],
                                             fs |-> r.fs]) :
                   list \in Listings(entries(acc.dirs[dir], <<>>))}

\* part_001:31-80; ms is the time of day new Date() shows, links the
\* symbolic links of the store root.  When the new directory exists already
\* mkdir passes (EEXIST) and symlinkSync throws on a link that exists.
backup(ms, links) ==
    /\ calls < MaxBackupCalls
    /\ LET d == [day |-> today, ms |-> ms]
           list == DOMAIN backupDir
           name == newDirName(list, d)
           copy == copyDir(dbPath(files, links), <<>>)
       IN \E old \in Listings(oldBackups(list, d)) :
          \E swept \in sweep(old, [kind |-> "value", dirs |-> backupDir, fs |-> files]) :
            LET kept == DOMAIN swept.dirs
                exists == IF name \in kept THEN swept.dirs[name] ELSE <<>>
            IN /\ files' = swept.fs
               /\ IF swept.kind = "error" \/ (\E n \in DOMAIN links : <<n>> \in DOMAIN exists)
                  THEN /\ backupDir' = swept.dirs
                       /\ streams' = streams
                       /\ ret' = Ret("backup", [ms |-> ms, links |-> links], "error", None, {}, {}, TRUE)
                  ELSE /\ backupDir' = [dir \in kept \cup {name} |->
                                          IF dir = name
                                          THEN [path \in {x[1] : x \in copy.made} \cup DOMAIN exists |->
                                                  IF path \in DOMAIN exists THEN exists[path]
                                                  ELSE (CHOOSE x \in copy.made : x[1] = path)[2]]
                                          ELSE swept.dirs[dir]]
                       /\ streams' = streams \cup {[dir |-> name, path |-> path] : path \in copy.piped}
                       /\ ret' = Ret("backup", [ms |-> ms, links |-> links], "value", Undefined, {}, {}, TRUE)
    /\ calls' = calls + 1
    /\ UNCHANGED <<variant, production, now, deleted, tasks, today>>

\* what the file at a path of the store root holds now (nothing when the
\* file is gone)
sourceData(fs, path) ==
    IF Len(path) = 1 THEN dbPath(fs, <<>>)[path[1]][2]
    ELSE IF path[2] \in DOMAIN fs THEN fs[path[2]] ELSE {}

\* part_001:116-120: a stream pair that copyFile made runs: the source is
\* read as it is now and written to the destination.  When the source is
\* gone the destination stays empty; when the snapshot or the directory of
\* the destination is gone nothing is written.
pipe(s) ==
    /\ s \in streams
    /\ streams' = streams \ {s}
    /\ backupDir' =
         IF s.dir \notin DOMAIN backupDir THEN backupDir
         ELSE IF SubSeq(s.path, 1, Len(s.path) - 1) \notin DOMAIN backupDir[s.dir] THEN backupDir
         ELSE [backupDir EXCEPT ![s.dir] =
                 [path \in DOMAIN @ \cup {s.path} |->
                    IF path = s.path
                    THEN <<"file", sourceData(files, s.path)>>
                    ELSE @[path]]]
    /\ UNCHANGED <<variant, production, files, now, calls, ret, deleted, tasks, today>>

\* midnight passes
NextDay ==
    /\ today < MaxDay
    /\ today' = today + 1
    /\ UNCHANGED <<variant, production, files, now, calls, ret, deleted, tasks, backupDir, streams>>

BackupDocs == {("id" :> Str(1) @@ "age" :> Num(MaxVal))}

\* the backup utility does not depend on the revision of ODModel
BackupInit ==
    /\ variant = "v2"
    /\ production = FALSE
    /\ files \in RaceStores
    /\ now = 0
    /\ calls = 0
    /\ ret = NoCall
    /\ deleted = {}
    /\ tasks = <<>>
    /\ today = 0
    /\ backupDir = <<>>
    /\ streams = {}

BackupNext ==
    \/ \E ms \in 0..1, links \in StoreLinks : backup(ms, links)
    \/ \E s \in streams : pipe(s)
    \/ NextDay
    \/ calls < MaxBackupCalls /\ UNCHANGED otherVars
         /\ \E document \in BackupDocs : insertOne(document, Undefined)
    \/ calls < MaxBackupCalls /\ UNCHANGED otherVars
         /\ findByIdAndDelete(Str(1))

BackupSpec == BackupInit /\ [][BackupNext]_vars

\* ------------------------------------------------------------------ failing files
\* One call on a collection that holds documents the store wrote and
\* entries that fail: files that do not parse and entries that are no
\* regular files.  "legacy" is the ODModel of src/src/model.ts, of which
\* the two reads are modelled.

\* the for loop of find (src/src/model.ts:97): no entry is skipped, a
\* query key matches by strict equality
RECURSIVE findLoop(_, _, _, _)
findLoop(list, fs, query, results) ==
    IF list = <<>> THEN [kind |-> "value", value |-> results]
    ELSE LET file == Head(list)
             document == JSONparse(fs[file])
         IN IF ~readable(fs, file) THEN [kind |-> "error", value |-> None]
            ELSE IF \A key \in DOMAIN query : get(document, key) = query[key]
                 THEN findLoop(Tail(list), fs, query, Append(results, document))
                 ELSE findLoop(Tail(list), fs, query, results)

\* src/src/model.ts:92
find(query) ==
    /\ variant = "legacy"
    /\ calls < MaxCalls
    /\ calls' = calls + 1
    /\ \E list \in readdir(files) :
         LET r == findLoop(list, files, query, <<>>)
         IN ret' = Ret("find", [query |-> query], r.kind, r.value, {}, {}, TRUE)
    /\ UNCHANGED <<variant, production, files, now, deleted>>

FaultEntries ==
    {JSONstringify(insertedDocument(("age" :> Num(0)), Str(1), 0)),
     JSONstringify(insertedDocument(("age" :> Num(MaxVal)), Str(MaxId), 0)),
     NotJSON, IsDirectory}
FaultStores == UNION {[S -> FaultEntries] : S \in SUBSET Names}
FaultQueries == {<<>>, ("age" :> Num(0))}

FaultInit ==
    /\ variant \in Variants \cup {"legacy"}
    /\ production = FALSE
    /\ files \in FaultStores
    /\ now = 0
    /\ calls = 0
    /\ ret = NoCall
    /\ deleted = {}
    /\ tasks = <<>>
    /\ today = 0
    /\ backupDir = <<>>
    /\ streams = {}

FaultNext ==
    /\ calls = 0
    /\ UNCHANGED otherVars
    /\ \/ \E id \in IdArgs \cup {Undefined} : findOne(id)
       \/ \E query \in FaultQueries : find(query)
       \/ /\ variant \in Variants
          /\ \/ \E query \in FaultQueries : findMany(TRUE, query)
             \/ findMany(FALSE, <<>>)
             \/ \E documents \in Batches : insertMany(documents)
             \/ \E query \in FaultQueries, update \in ManyUpdates : findManyAndUpdate(query, update)
             \/ \E query \in FaultQueries : findManyAndDelete(query)

FaultSpec == FaultInit /\ [][FaultNext]_vars

\* ------------------------------------------------------------------ filter runs
\* The filter evaluator applied once to a store of one or two documents that
\* insertOne wrote, for a wide set of filters.
FilterContents ==
    {Spread(a, n) : a \in {<<>>, ("age" :> Null)} \cup {("age" :> Num(v)) : v \in 0..MaxVal},
                    n \in {<<>>, ("name" :> Str(1))}}
FilterStores ==
    LET one == {(1 :> JSONstringify(insertedDocument(c, Str(1), 0))) : c \in FilterContents}
    IN one \cup {writeFile(fs, 2, JSONstringify(insertedDocument(("age" :> Num(0)), Str(2), 0))) : fs \in one}

FilterOperands == Operands \cup {Null, Str(1)}
FilterArrays == SUBSET (Operands \cup {Null})
Ordering == {"$gt", "$gte", "$lt", "$lte"}
FilterValues ==
    FilterOperands
    \cup {<<"array", S>> : S \in FilterArrays}
    \cup {<<"object", (op :> x)>> : op \in Ordering \cup {"$eq", "$ne"}, x \in FilterOperands}
    \cup {<<"object", (op :> S)>> : op \in {"$in", "$nin"}, S \in FilterArrays}
    \cup {<<"object", ("$exists" :> b)>> : b \in BOOLEAN}
    \cup {<<"object", ("$gte" :> x @@ "$lte" :> y)>> : x \in Operands, y \in Operands}
    \cup {<<"object", <<>>>>}
WideFilters ==
    {(k :> fv) : k \in UserKeys, fv \in FilterValues}
    \cup {("age" :> fa @@ "name" :> fn) :
            fa \in {Num(0), <<"object", ("$gt" :> Num(0))>>, <<"object", ("$exists" :> FALSE)>>},
            fn \in {Str(1), <<"array", {}>>, <<"object", ("$ne" :> Str(1))>>}}
    \cup {<<>>}

FilterInit ==
    /\ variant \in Variants
    /\ production = FALSE
    /\ files \in FilterStores
    /\ now = 0
    /\ calls = 0
    /\ ret = NoCall
    /\ deleted = {}
    /\ tasks = <<>>
    /\ today = 0
    /\ backupDir = <<>>
    /\ streams = {}

FilterNext ==
    /\ calls = 0
    /\ UNCHANGED otherVars
    /\ \/ \E query \in WideFilters : findMany(TRUE, query)
       \/ \E query \in WideFilters, update \in ManyUpdates : findManyAndUpdate(query, update)
       \/ \E query \in WideFilters : findManyAndDelete(query)

FilterSpec == FilterInit /\ [][FilterNext]_vars

\* ------------------------------------------------------------------ naming runs
\* The operations that name the file after the id: insertOne without a file
\* name, insertMany, and the updates and deletes, the updates also with an
\* update object that carries an id member.
NamingUpdates == ManyUpdates \cup {("id" :> Str(MaxId))}

NamingInit ==
    /\ variant \in Variants
    /\ production = FALSE
    /\ files = <<>>
    /\ now = 0
    /\ calls = 0
    /\ ret = NoCall
    /\ deleted = {}
    /\ tasks = <<>>
    /\ today = 0
    /\ backupDir = <<>>
    /\ streams = {}

NamingNext ==
    /\ UNCHANGED otherVars
    /\ \/ \E document \in InsertDocs : insertOne(document, Undefined)
       \/ \E documents \in Batches : insertMany(documents)
       \/ \E id \in IdArgs, update \in Updates : findByIdAndUpdate(id, update)
       \/ \E query \in Filters, update \in NamingUpdates : findManyAndUpdate(query, update)
       \/ \E id \in IdArgs : findByIdAndDelete(id)
       \/ \E query \in Filters : findManyAndDelete(query)

NamingSpec == NamingInit /\ [][NamingNext]_vars

\* ------------------------------------------------------------------ claims
\* the step is a call of op
Called(op) == calls' = calls + 1 /\ ret'.op = op
Range(seq) == {seq[i] : i \in DOMAIN seq}
Scanned(fs) == {f \in DOMAIN fs : ~includesDSStore(f)}
StoreFields == {"id", "createdAt", "updatedAt"}
WrittenNames == {w[1] : w \in ret.writes}
LastWrite(f) == CHOOSE t \in {w[2] : w \in {x \in ret.writes : x[1] = f}} :
                    \A w \in ret.writes : w[1] = f => w[2] <= t

\* C1 (as claimed): findByIdAndUpdate(id, update) on an existing document
\* stores and returns the shallow merge of update over it: a field update
\* does not name keeps its old value, a field update names takes update's
\* value (id and updatedAt, which the store sets itself, left aside).
C1_UpdateIsShallowMerge ==
    [][(Called("findByIdAndUpdate") /\ ret'.kind = "value") =>
        LET id == ret'.args.id
            update == ret'.args.update
            old == existingData(files, id)
            new == existingData(files', id)
        IN /\ ret'.value = new
           /\ \A k \in DOMAIN update \ {"id", "updatedAt"} : get(new, k) = update[k]
           /\ \A k \in DOMAIN old \ (DOMAIN update \cup {"id", "updatedAt"}) :
                get(new, k) = old[k]]_vars

\* C4: after insertOne without a file name, findOne with the returned id
\* yields the returned document, which is the input plus id, createdAt and
\* updatedAt.
C4_InsertFindRoundTrip ==
    (ret.op = "insertOne" /\ ret.kind = "value" /\ ~Truthy(ret.args.fileName)) =>
        LET input == ret.args.document
            r == findOneResult(files, get(ret.value, "id"))
        IN /\ r.kind = "value"
           /\ r.value = ret.value
           /\ DOMAIN r.value = DOMAIN input \cup StoreFields
           /\ \A k \in DOMAIN input \ StoreFields : r.value[k] = input[k]
           /\ Truthy(get(input, "id")) => r.value["id"] = input["id"]

C4_Witness ==
    /\ ret.op = "insertOne" /\ ret.kind = "value" /\ ~Truthy(ret.args.fileName)
    /\ DOMAIN ret.args.document \ StoreFields # {}
    /\ findOneResult(files, get(ret.value, "id")).kind = "value"

C6_UpdatedAtIsWriteTime ==
    \A f \in WrittenNames \cap DOMAIN files :
        get(JSONparse(files[f]), "updatedAt") = Time(LastWrite(f))

\* C7 (as claimed): findByIdAndUpdate and findManyAndUpdate leave the
\* createdAt of every stored document as it was.
C7_CreatedAtKept ==
    [][(calls' = calls + 1 /\ ret'.op \in {"findByIdAndUpdate", "findManyAndUpdate"}) =>
        \A f \in DOMAIN files :
            LET old == JSONparse(files[f])
            IN "createdAt" \in DOMAIN old =>
                 /\ f \in DOMAIN files'
                 /\ get(JSONparse(files'[f]), "createdAt") = old["createdAt"]]_vars

\* C8 (as claimed): findByIdAndUpdate stores and returns a document whose
\* id is the id of the existing record, whatever update carries.
C8_UpdateKeepsId ==
    [][(Called("findByIdAndUpdate") /\ ret'.kind = "value") =>
        LET id == ret'.args.id
            old == existingData(files, id)
        IN /\ get(ret'.value, "id") = get(old, "id")
           /\ get(existingData(files', id), "id") = get(old, "id")]_vars

\* C9: once findByIdAndDelete(id) has succeeded, findOne(id) returns null
\* until an insert writes that id again.
C9_DeletedIsNotFound ==
    /\ \A n \in deleted : findOneResult(files, Str(n)).kind = "null"
    /\ (ret.op = "findOne" /\ ret.args.id[2] \in deleted) => ret.kind = "null"

C9_Witness ==
    ret.op = "findOne" /\ ret.args.id[2] \in deleted /\ ret.kind = "null"

\* C10: dropCollection under the production flag raises an error, lists
\* nothing and deletes nothing: the files and their contents are unchanged.
C10_ProductionGuard ==
    [][(Called("dropCollection") /\ production) =>
        /\ ret'.kind = "error"
        /\ ~ret'.listed
        /\ ret'.unlinks = {}
        /\ files' = files]_vars

C10_Witness ==
    /\ ret.op = "dropCollection" /\ ret.kind = "error" /\ production
    /\ Scanned(files) # {}

\* a bulk call with a filter
FilterCalls == {"findMany", "findManyAndUpdate", "findManyAndDelete"}
FilterCalled == calls' = calls + 1 /\ ret'.op \in FilterCalls /\ ret'.args.query # <<>>
\* the call selected the file f, whose document was document
Selected(f, document) ==
    CASE ret'.op = "findMany" -> document \in Range(ret'.value)
      [] ret'.op = "findManyAndUpdate" -> f \in {w[1] : w \in ret'.writes}
      [] ret'.op = "findManyAndDelete" -> f \in ret'.unlinks

\* C2 (as claimed): when a filter puts $gt, $gte, $lt or $lte on a path the
\* document does not have, matchesFilter is false and findMany,
\* findManyAndUpdate and findManyAndDelete do not select the document.
C2_OrderingOnAbsentNeverMatches ==
    [][FilterCalled =>
        LET query == ret'.args.query
        IN \A f \in Scanned(files), path \in DOMAIN query :
             LET document == JSONparse(files[f])
             IN (/\ Kind(query[path]) = "object"
                 /\ DOMAIN query[path][2] \cap Ordering # {}
                 /\ get(document, path) = Undefined)
                => (~matchesFilter(document, query) /\ ~Selected(f, document))]_vars

\* C3 (as claimed): when a filter maps a path to an array, a document whose
\* value at the path is not an element of the array is not matched and not
\* selected.
C3_ArrayIsMembership ==
    [][FilterCalled =>
        LET query == ret'.args.query
        IN \A f \in Scanned(files), path \in DOMAIN query :
             LET document == JSONparse(files[f])
             IN (/\ Kind(query[path]) = "array"
                 /\ get(document, path) \notin query[path][2])
                => (~matchesFilter(document, query) /\ ~Selected(f, document))]_vars

\* two calls of the same file name that were in flight together and have
\* both returned, no third call having written that file
Racing(i, j) ==
    /\ i \in DOMAIN tasks /\ j \in DOMAIN tasks /\ i < j
    /\ i \in tasks[j].pending
    /\ tasks[i].id = tasks[j].id
    /\ \A k \in DOMAIN tasks : tasks[k].pc = "done"
    /\ \A k \in DOMAIN tasks \ {i, j} : tasks[k].wrote = 0
\* of two racing calls, the one whose write settled last
LastWriter(i, j) == IF tasks[i].wrote > tasks[j].wrote THEN i ELSE j
\* what task l wrote is what it writes when it runs on the files `base`
\* alone: nothing another call wrote is in it
WroteAsAlone(l, base) ==
    \/ tasks[l].op = "insertOne"
    \/ /\ found(base, tasks[l].id)
       /\ tasks[l].data = updatedData(variant, existingData(base, tasks[l].id), tasks[l].arg, tasks[l].t)

RECURSIVE Tree(_, _)
Tree(source, destination) ==
    {<<destination, <<"dir", {}>>>>}
    \cup UNION {LET current == source[name]
                    path == Append(destination, name)
                IN IF current[1] = "dir" THEN Tree(current[2], path) ELSE {<<path, current>>} :
                name \in DOMAIN source}
Snapshot(fs, links) ==
    LET tree == Tree(dbPath(fs, links), <<>>)
    IN [path \in {x[1] : x \in tree} |-> (CHOOSE x \in tree : x[1] = path)[2]]
Made == DOMAIN backupDir' \ DOMAIN backupDir
Removed == DOMAIN backupDir \ DOMAIN backupDir'

\* C12 (as claimed): when backup() returns, the new snapshot holds every
\* directory, every symbolic link and the content of every regular file of
\* the store root as it is at that moment, and no later step changes what a
\* snapshot holds.
C12_SnapshotBuiltOnReturn ==
    [][/\ (Called("backup") /\ ret'.kind = "value") =>
            \A dir \in Made : backupDir'[dir] = Snapshot(files, ret'.args.links)
       /\ \A dir \in DOMAIN backupDir \cap DOMAIN backupDir' : backupDir'[dir] = backupDir[dir]]_vars

\* C13 (as claimed): backup() removes exactly the snapshots whose date is
\* more than 30 days before today's date and keeps every other one.
C13_PrunesOlderThanLimit ==
    [][Called("backup") =>
         Removed = {dir \in DOMAIN backupDir :
                      NewDate(dir[1], dir[2] - 1, dir[3]).day < today - backupDaysLimit}]_vars

\* C14 (as claimed): the k-th backup() of a calendar day finds the snapshots <date>-1 ..
\* <date>-(k-1) of that day, makes exactly the snapshot <date>-k, which did
\* not exist, and does not fail.
C14_SequenceIsCountPlusOne ==
    [][Called("backup") =>
         LET d == [day |-> today, ms |-> 0]
             date == <<getFullYear(d), getMonth(d) + 1, getDate(d)>>
             sameDay == {dir \in DOMAIN backupDir : <<dir[1], dir[2], dir[3]>> = date}
         IN /\ ret'.kind = "value"
            /\ \E k \in 1..MaxBackupCalls :
                 /\ sameDay = {date \o <<i>> : i \in 1..(k - 1)}
                 /\ Made = {date \o <<k>>}]_vars

\* the scanned entries of fs that cannot be read or parsed
Bad(fs) == {f \in Scanned(fs) : fs[f] \in {NotJSON, IsDirectory}}
\* the entries a bulk call handles before the N-th of the listing
Before(list, N) == {list[i] : i \in 1..(N - 1)} \cap Scanned(files)
\* the N-th entry of the listing is the first that fails
FirstBad(list, N) == list[N] \in Bad(files) /\ \A i \in 1..(N - 1) : list[i] \notin Bad(files)
\* the index of the first document of a batch that cannot be written
Unwritable(documents) ==
    {i \in 1..Len(documents) :
        /\ Truthy(get(documents[i], "id"))
        /\ get(documents[i], "id")[2] \in DOMAIN files
        /\ files[get(documents[i], "id")[2]] = IsDirectory}
\* the file f holds the document as insertMany stamps it
Holds(fs, f, document) ==
    LET stored == JSONparse(fs[f])
    IN /\ DOMAIN stored = DOMAIN document \cup StoreFields
       /\ \A k \in DOMAIN document \ StoreFields : stored[k] = document[k]

\* C15: a bulk call raises exactly when an item fails; it has then returned
\* no result, the items before the failing one are mutated as the call
\* mutates them, and nothing else is touched.
C15_BulkFaultKeepsEarlierItems ==
    [][/\ Called("findManyAndUpdate") =>
            /\ (Bad(files) # {}) <=> (ret'.kind = "error")
            /\ ret'.kind = "error" =>
                 /\ ret'.value = None
                 /\ \E list \in readdir(files), N \in 1..Cardinality(DOMAIN files) :
                      /\ FirstBad(list, N)
                      /\ DOMAIN files' = DOMAIN files
                      /\ \A f \in DOMAIN files :
                           files'[f] =
                             IF f \in Before(list, N) /\ matchesFilter(JSONparse(files[f]), ret'.args.query)
                             THEN JSONstringify(Spread(JSONparse(files[f]), ret'.args.update))
                             ELSE files[f]
       /\ Called("findManyAndDelete") =>
            /\ (Bad(files) # {}) <=> (ret'.kind = "error")
            /\ ret'.kind = "error" =>
                 /\ ret'.value = None
                 /\ \E list \in readdir(files), N \in 1..Cardinality(DOMAIN files) :
                      /\ FirstBad(list, N)
                      /\ files' = [f \in {g \in DOMAIN files :
                                            ~(/\ g \in Before(list, N)
                                              /\ matchesFilter(JSONparse(files[g]), ret'.args.query))}
                                     |-> files[f]]
       /\ Called("insertMany") =>
            LET documents == ret'.args.documents
                written == {w[1] : w \in ret'.writes}
            IN /\ (Unwritable(documents) # {}) <=> (ret'.kind = "error")
               /\ ret'.kind = "error" =>
                    LET N == CHOOSE n \in Unwritable(documents) : \A m \in Unwritable(documents) : n <= m
                    IN /\ ret'.value = None
                       /\ DOMAIN files' = DOMAIN files \cup written
                       /\ \A f \in DOMAIN files \ written : files'[f] = files[f]
                       /\ \A i \in 1..(N - 1) : \E f \in written : Holds(files', f, documents[i])
                       /\ \A f \in written : \E i \in 1..(N - 1) : Holds(files', f, documents[i])
                       /\ Cardinality(written) <= N - 1]_vars

C15_Witness ==
    /\ ret.op \in {"insertMany", "findManyAndUpdate", "findManyAndDelete"}
    /\ ret.kind = "error"
    /\ ret.writes # {} \/ ret.unlinks # {}

\* C16 (as claimed): findOne never raises and returns null when the file is
\* missing, unreadable or unparsable; a bulk read that scans an entry which
\* cannot be read or parsed raises.
C16_FindOneNeverRaises ==
    [][/\ Called("findOne") =>
            /\ ret'.kind # "error"
            /\ LET id == ret'.args.id
               IN (~Truthy(id) \/ id[2] \notin DOMAIN files \/ files[id[2]] \in {NotJSON, IsDirectory})
                    => ret'.kind = "null"
       /\ (calls' = calls + 1 /\ ret'.op \in FilterCalls /\ Bad(files) # {}) => ret'.kind = "error"
       /\ (Called("find") /\ \E f \in DOMAIN files : files[f] \in {NotJSON, IsDirectory})
            => ret'.kind = "error"]_vars

\* the scanned files findMany selects
Matching(fs, given, query) ==
    {f \in Scanned(fs) : ~given \/ matchesFilter(JSONparse(fs[f]), query)}

\* C17: findMany raises and returns no document when a scanned file cannot
\* be read or parsed; otherwise it returns, once each, the documents of the
\* scanned files that match the filter (of all scanned files without a
\* filter), entries named .DS_Store not being scanned; it changes no file.
C17_FindManyAllOrNothing ==
    [][Called("findMany") =>
         /\ files' = files
         /\ IF Bad(files) # {}
            THEN ret'.kind = "error" /\ ret'.value = None
            ELSE LET hit == Matching(files, ret'.args.given, ret'.args.query)
                     value == ret'.value
                 IN /\ ret'.kind = "value"
                    /\ Len(value) = Cardinality(hit)
                    /\ \E order \in [1..Len(value) -> hit] :
                         /\ \A i, j \in 1..Len(value) : i # j => order[i] # order[j]
                         /\ \A i \in 1..Len(value) : value[i] = JSONparse(files[order[i]])]_vars

C17_Witness ==
    /\ ret.op = "findMany" /\ ret.kind = "error"
    /\ Bad(files) # {}
    /\ \E f \in Scanned(files) \ Bad(files) : matchesFilter(JSONparse(files[f]), ret.args.query)

\* the insertOne call of the step stored its document under the id the
\* caller gave it
KeepsGivenId ==
    LET document == ret'.args.document
        fileName == ret'.args.fileName
        id == document["id"]
    IN /\ ret'.kind = "value"
       /\ get(ret'.value, "id") = id
       /\ \E w \in ret'.writes :
            /\ get(JSONparse(files'[w[1]]), "id") = id
            /\ ~Truthy(fileName) => w[1] = id[2]

\* C18 (as claimed): insertOne on a document that carries an id, whatever
\* its value, returns and stores the document under that id and generates
\* none.
C18_GivenIdKeptForEveryValue ==
    [][(Called("insertOne") /\ "id" \in DOMAIN ret'.args.document) => KeepsGivenId]_vars

\* C18 (amended): insertOne on a document that carries a truthy id (a
\* non-empty string) returns and stores the document under that id and
\* generates none.
C18_GivenIdKept ==
    [][(Called("insertOne") /\ Truthy(get(ret'.args.document, "id"))) => KeepsGivenId]_vars

C18_Witness ==
    /\ ret.op = "insertOne" /\ ret.kind = "value"
    /\ Truthy(get(ret.args.document, "id"))
    /\ get(ret.value, "id") = ret.args.document["id"]
    /\ ret.args.document["id"][2] \in DOMAIN files

OpHolds(op, v, x) ==
    CASE op = "$eq" -> v = x
      [] op = "$ne" -> v # x
      [] op = "$gt" -> JsLt(x, v)
      [] op = "$gte" -> JsLe(x, v)
      [] op = "$lt" -> JsLt(v, x)
      [] op = "$lte" -> JsLe(v, x)
      [] op = "$in" -> v \in x
      [] op = "$nin" -> v \notin x
\* the condition a filter value puts on v: every operator of an operator
\* object holds, a literal is equal
Condition(filterValue, v) ==
    IF Kind(filterValue) = "object"
    THEN \A op \in DOMAIN filterValue[2] : OpHolds(op, v, filterValue[2][op])
    ELSE v = filterValue
\* the filters C20 speaks of, for a document: operator objects of the eight
\* operators on paths that hold a number, and literals
InScope(query, document) ==
    \A path \in DOMAIN query :
        /\ Kind(query[path]) # "array"
        /\ Kind(query[path]) = "object" =>
             /\ "$exists" \notin DOMAIN query[path][2]
             /\ Kind(get(document, path)) = "number"

\* C20 (as claimed): on paths that hold a number a filter matches exactly
\* when every operator present holds of the value and its operand, on every
\* path of the filter.
C20_OperatorsAndAcrossFields ==
    [][FilterCalled =>
        LET query == ret'.args.query
        IN \A f \in Scanned(files) :
             LET document == JSONparse(files[f])
                 expected == \A path \in DOMAIN query : Condition(query[path], get(document, path))
             IN InScope(query, document) =>
                  /\ matchesFilter(document, query) <=> expected
                  /\ Selected(f, document) <=> expected]_vars

\* the filter {path: {$exists: b}} alone
ExistsFilter(query) ==
    /\ Cardinality(DOMAIN query) = 1
    /\ \A path \in DOMAIN query : query[path] \in {<<"object", ("$exists" :> b)>> : b \in BOOLEAN}

C22_MissingIdIsNullAndNoWrite ==
    [][((Called("findByIdAndUpdate") \/ Called("findByIdAndDelete"))
        /\ ret'.args.id[2] \notin DOMAIN files) =>
        /\ ret'.kind # "error"
        /\ IF ret'.op = "findByIdAndDelete" /\ variant = "v1"
           THEN ret'.value = FALSE
           ELSE ret'.kind = "null" /\ ret'.value = Null
        /\ files' = files
        /\ ret'.writes = {} /\ ret'.unlinks = {}]_vars

\* findByIdAndUpdate with a non-empty update returned null for an id that
\* has no file while another document is stored
C22_Witness ==
    /\ ret.op = "findByIdAndUpdate"
    /\ ret.args.update # <<>>
    /\ ret.kind = "null"
    /\ ret.args.id[2] \notin DOMAIN files
    /\ files # <<>>

\* C23 (as claimed): in every state reached by insertOne without a file
\* name, insertMany, findByIdAndUpdate, findManyAndUpdate, findByIdAndDelete
\* and findManyAndDelete, the file `<name>.json` holds a document whose id
\* member is <name>.
C23_BasenameIsId ==
    \A f \in DOMAIN files : get(JSONparse(files[f]), "id") = Str(f)

\* C24 (as claimed): backup() removes nothing but entries of the snapshots
\* it prunes: the files of the store's collection and the snapshots it keeps
\* are after the call what they were before it, whatever symbolic links an
\* earlier backup() recreated in the pruned snapshot.
C24_SweepStaysInPrunedSnapshots ==
    [][Called("backup") =>
        LET old == oldBackups(DOMAIN backupDir, [day |-> today, ms |-> ret'.args.ms])
        IN /\ files' = files
           /\ \A dir \in DOMAIN backupDir \ old :
                dir \in DOMAIN backupDir' /\ backupDir'[dir] = backupDir[dir]]_vars

\* a findByIdAndUpdate (u) and a findByIdAndDelete (d) of one id that were
\* in flight together and have both returned, the delete with success
Undone(u, d) ==
    /\ u \in DOMAIN tasks /\ d \in DOMAIN tasks
    /\ tasks[u].op = "findByIdAndUpdate" /\ tasks[d].op = "findByIdAndDelete"
    /\ tasks[u].id = tasks[d].id
    /\ u \in tasks[d].pending \/ d \in tasks[u].pending
    /\ \A k \in DOMAIN tasks : tasks[k].pc = "done"
    /\ tasks[d].kind = "value"

\* C25 (as claimed): when a findByIdAndUpdate and a findByIdAndDelete of one
\* id overlap, the delete returns success and no insert is issued, no file
\* is stored under the id once all calls have returned.
C25_UpdateCannotUndoDelete ==
    \A u, d \in 1..MaxTasks : Undone(u, d) => tasks[d].id[2] \notin DOMAIN files

====
